---------------------------- MODULE Spec2Model ----------------------------
(***************************************************************************)
(* ec2-ssh: the discovery / selection / dispatch pipeline of Ec2ssh.Run,   *)
(* with ListInstances, GetConnectionDetails and handleSSOError.            *)
(*                                                                         *)
(* Go strings are sequences of one-character strings, so that the string   *)
(* operations of the code (SplitN, Contains, HasPrefix, TrimPrefix,        *)
(* Sprintf) are computed and not assumed.  A Go pointer or error is a      *)
(* sequence of length at most one: <<>> is nil, <<v>> points to v.         *)
(***************************************************************************)
EXTENDS Integers, Sequences, FiniteSets, TLC

VARIABLES
    options,            \* Ec2ssh.options, fixed by New()
    pc,                 \* position of the goroutine running Run
    depth,              \* number of invocations of Run so far (Run calls itself)
    forked,             \* clients for which the loop of Run has started a worker
    wpc,                \* position of each discovery worker of the current Run
    wres,               \* each worker's locals: retrivedInstances, err
    wg,                 \* the WaitGroup counter
    instancesLock,      \* the mutex: 0 when free, else the worker holding it
    instances,          \* Run's local slice
    lastError,          \* Run's local error
    indexes,            \* what finder.FindMulti returned
    connectionDetails,  \* Run's local slice of targets
    ssmConnections,     \* Run's local slice of transport flags
    procs,              \* every external process spawned, in order
    output,             \* what was written to standard output, in order
    exitStatus,         \* <<>> while the process runs, else <<status>>
    panicValue,         \* the value of an uncaught panic, <<>> if none
    arg,                \* argument of a direct call (ListInstances, GetConnectionDetails)
    ret                 \* result of that call, <<>> before it

vars ==
    << options, pc, depth, forked, wpc, wres, wg, instancesLock, instances,
       lastError, indexes, connectionDetails, ssmConnections, procs, output,
       exitStatus, panicValue, arg, ret >>

runVars ==
    << pc, depth, forked, wpc, wres, wg, instancesLock, instances,
       lastError, indexes, connectionDetails, ssmConnections, procs, output,
       exitStatus, panicValue >>

---------------------------------------------------------------------------
(* Bounds of the model. *)

\* number of configured regions, one ec2 client each
NumRegions == 2
\* invocations of Run the model follows (Run calls itself after a recovery)
MaxRuns == 3
\* instances the user selects at most in the finder
MaxSelect == 2
\* length of a user filter string in the direct calls of ListInstances
MaxFilterLen == 3
\* tags of an instance in the direct calls of GetConnectionDetails
MaxTags == 2
\* user filters in the direct calls of ListInstances
MaxFilterCount == 2

\* longest startup command of an agent session the model follows
MaxCommandLen == 3

---------------------------------------------------------------------------
(* Strings. *)

Nil == <<>>

Ptr(v) == <<v>>

SeqsUpTo(S, n) == UNION { [1..k -> S] : k \in 0..n }

\* strings.Index for a one-character separator; 0 when absent
IndexByte(s, c) ==
    IF \E i \in 1..Len(s) : s[i] = c
    THEN CHOOSE i \in 1..Len(s) : s[i] = c /\ \A j \in 1..(i-1) : s[j] # c
    ELSE 0

\* strings.SplitN(s, "=", 2)
SplitN2(s) ==
    LET i == IndexByte(s, "=")
    IN  IF i = 0 THEN <<s>>
        ELSE <<SubSeq(s, 1, i-1), SubSeq(s, i+1, Len(s))>>

Contains(s, sub) ==
    \E i \in 1..(Len(s) - Len(sub) + 1) : SubSeq(s, i, i + Len(sub) - 1) = sub

HasPrefix(s, p) ==
    Len(s) >= Len(p) /\ SubSeq(s, 1, Len(p)) = p

TrimPrefix(s, p) ==
    IF HasPrefix(s, p) THEN SubSeq(s, Len(p) + 1, Len(s)) ELSE s

\* %d of a small number
Itoa(n) == <<ToString(n)>>

RECURSIVE Flatten(_)
Flatten(ss) ==
    IF ss = <<>> THEN <<>> ELSE Head(ss) \o Flatten(Tail(ss))

RECURSIVE Count(_, _)
Count(s, x) ==
    IF s = <<>> THEN 0
    ELSE (IF Head(s) = x THEN 1 ELSE 0) + Count(Tail(s), x)

Range(s) == { s[i] : i \in 1..Len(s) }

---------------------------------------------------------------------------
(* Texts of the program. *)

MarkerRefresh ==
    <<"f","a","i","l","e","d"," ","t","o"," ","r","e","f","r","e","s","h"," ","c","a","c","h","e","d"," ","c","r","e","d","e","n","t","i","a","l","s">>
MarkerToken ==
    <<"c","a","c","h","e","d"," ","S","S","O"," ","t","o","k","e","n">>
MarkerCache ==
    <<"s","s","o","/","c","a","c","h","e">>
SsmPrefix ==
    <<"s","s","m",":">>
FilterErrHead ==
    <<"F","i","l","t","e","r","s"," ","c","a","n"," ","o","n","l","y"," ","c","o","n","t","a","i","n"," ","o","n","e"," ","'","=","'","."," ","F","i","l","t","e","r"," ","\"">>
FilterErrMid ==
    <<"\""," ","h","a","s"," ">>
StateFilterName ==
    <<"i","n","s","t","a","n","c","e","-","s","t","a","t","e","-","n","a","m","e">>
StatePending ==
    <<"p","e","n","d","i","n","g">>
StateRunning ==
    <<"r","u","n","n","i","n","g">>
StateShuttingDown ==
    <<"s","h","u","t","t","i","n","g","-","d","o","w","n">>

(* Texts of the environment: provider errors, configuration values, addresses. *)

ErrExpiredToken ==
    <<"g","e","t"," ","i","d","e","n","t","i","t","y",":"," ","c","a","c","h","e","d"," ","S","S","O"," ","t","o","k","e","n"," ","i","s"," ","e","x","p","i","r","e","d">>
ErrRequestLimit ==
    <<"R","e","q","u","e","s","t","L","i","m","i","t","E","x","c","e","e","d","e","d">>
ProfileProd ==
    <<"p","r","o","d">>
TagEnv ==
    <<"E","n","v">>
TagName ==
    <<"N","a","m","e">>
ValProd ==
    <<"p","r","o","d">>
ValDev ==
    <<"d","e","v">>
AddrPrivate ==
    <<"1","0",".","0",".","0",".","5">>
AddrPublicDns ==
    <<"e","c","2","-","1",".","a","w","s">>
AddrPrefixed ==
    <<"s","s","m",":","i","-","9">>
AddrPublicIp ==
    <<"1",".","2",".","3",".","4">>
SsoSessionName ==
    <<"c","o","r","p">>
SsmCommand ==
    <<"b","a","s","h"," ","-","l">>
FilterValid ==
    <<"t","a","g",":","E","n","v","=","p","r","o","d">>
FilterNoEq ==
    <<"r","u","n","n","i","n","g">>
FilterMarker ==
    <<"s","s","o","/","c","a","c","h","e">>
FilterState ==
    <<"i","n","s","t","a","n","c","e","-","s","t","a","t","e","-","n","a","m","e","=","r","u","n","n","i","n","g">>

---------------------------------------------------------------------------
(* ListInstances (src/ec2.go). *)

\* the filter appended first, whatever the user filters are
BaselineFilter ==
    [Name |-> StateFilterName,
     Values |-> <<StatePending, StateRunning, StateShuttingDown>>]

\* faulty variant of BuildFilters: a user filter takes the place of a filter
\* of the same name built before it
RECURSIVE BuildFilters_ReplaceSameName(_, _, _)
BuildFilters_ReplaceSameName(userFilters, i, acc) ==
    IF i > Len(userFilters) THEN [err |-> Nil, filters |-> acc]
    ELSE LET filter == userFilters[i]
             split == SplitN2(filter)
         IN  IF Len(split) < 2
             THEN [err |-> Ptr(FilterErrHead \o filter \o FilterErrMid \o Itoa(Len(split))),
                   filters |-> acc]
             ELSE LET new == [Name |-> split[1], Values |-> <<split[2]>>]
                  IN  IF \E k \in 1..Len(acc) : acc[k].Name = new.Name
                      THEN BuildFilters_ReplaceSameName(userFilters, i + 1,
                              [k \in 1..Len(acc) |->
                                  IF acc[k].Name = new.Name THEN new ELSE acc[k]])
                      ELSE BuildFilters_ReplaceSameName(userFilters, i + 1,
                                                        Append(acc, new))

\* the loop over e.options.Filters: the filters built so far, or the error
RECURSIVE BuildFilters(_, _, _)
BuildFilters(userFilters, i, acc) ==
    IF i > Len(userFilters) THEN [err |-> Nil, filters |-> acc]
    ELSE LET filter == userFilters[i]
             split == SplitN2(filter)
         IN  IF Len(split) < 2
             THEN [err |-> Ptr(FilterErrHead \o filter \o FilterErrMid \o Itoa(Len(split))),
                   filters |-> acc]
             ELSE BuildFilters(userFilters, i + 1,
                               Append(acc, [Name |-> split[1], Values |-> <<split[2]>>]))

\* faulty variant of Paginate: the instances of a page are put in front of
\* those of the pages before
RECURSIVE Paginate_PrependPage(_, _, _, _, _)
Paginate_PrependPage(pages, params, i, acc, requests) ==
    IF i > Len(pages)
    THEN [instances |-> acc, err |-> Nil, requests |-> requests]
    ELSE LET page == pages[i]
             sent == Append(requests, params)
         IN  IF page.err # Nil
             THEN [instances |-> <<>>, err |-> page.err, requests |-> sent]
             ELSE Paginate_PrependPage(pages, params, i + 1,
                                       Flatten(page.Reservations) \o acc, sent)

\* the paginator loop: pages is what the provider answers, page by page; the
\* last page carries no next token.  requests are the queries sent so far.
RECURSIVE Paginate(_, _, _, _, _)
Paginate(pages, params, i, acc, requests) ==
    IF i > Len(pages)
    THEN [instances |-> acc, err |-> Nil, requests |-> requests]
    ELSE LET page == pages[i]
             sent == Append(requests, params)
         IN  IF page.err # Nil
             THEN [instances |-> <<>>, err |-> page.err, requests |-> sent]
             ELSE Paginate(pages, params, i + 1,
                           acc \o Flatten(page.Reservations), sent)

ListInstances(userFilters, pages) ==
    LET built == BuildFilters(userFilters, 1, <<BaselineFilter>>)
    IN  IF built.err # Nil
        THEN [instances |-> <<>>, err |-> built.err, requests |-> <<>>]
        ELSE Paginate(pages, built.filters, 1, <<>>, <<>>)

---------------------------------------------------------------------------
(* GetConnectionDetails and shouldUseSSM (src/ec2.go). *)

\* faulty variant of TagMatches: the configured value is not compared
TagMatches_AnyValue(tag, ssm) ==
    tag.Key # Nil /\ tag.Key[1] = ssm.TagKey

\* the body of the loop over instance.Tags: does this tag select the agent session
TagMatches(tag, ssm) ==
    /\ tag.Key # Nil
    /\ tag.Key[1] = ssm.TagKey
    /\ \/ ssm.TagValue = <<>>
       \/ tag.Value # Nil /\ tag.Value[1] = ssm.TagValue

shouldUseSSM(instance, ssm) ==
    IF ssm.TagKey = <<>> THEN FALSE
    ELSE \E i \in 1..Len(instance.Tags) : TagMatches(instance.Tags[i], ssm)

\* faulty variant of GetConnectionDetails: the private address is tried
\* before the agent tag
GetConnectionDetails_AddressFirst(instance, opts) ==
    IF opts.UsePrivateIp /\ instance.PrivateIpAddress # Nil
                         /\ instance.PrivateIpAddress[1] # <<>>
    THEN instance.PrivateIpAddress[1]
    ELSE IF shouldUseSSM(instance, opts.SSM)
         THEN SsmPrefix \o instance.InstanceId[1]
         ELSE <<>>

\* faulty variant of GetConnectionDetails: under the private-address policy
\* an instance without private address gets its public host name
GetConnectionDetails_PublicFallback(instance, opts) ==
    IF shouldUseSSM(instance, opts.SSM)
    THEN SsmPrefix \o instance.InstanceId[1]
    ELSE IF opts.UsePrivateIp /\ instance.PrivateIpAddress # Nil
                              /\ instance.PrivateIpAddress[1] # <<>>
         THEN instance.PrivateIpAddress[1]
         ELSE IF instance.PublicDnsName # Nil /\ instance.PublicDnsName[1] # <<>>
              THEN instance.PublicDnsName[1]
              ELSE IF ~opts.UsePrivateIp /\ instance.PublicIpAddress # Nil
                                         /\ instance.PublicIpAddress[1] # <<>>
                   THEN instance.PublicIpAddress[1]
                   ELSE <<>>

\* faulty variant of GetConnectionDetails: under the public-address policy
\* the public IP is tried before the public host name
GetConnectionDetails_IpBeforeDns(instance, opts) ==
    IF shouldUseSSM(instance, opts.SSM)
    THEN SsmPrefix \o instance.InstanceId[1]
    ELSE IF opts.UsePrivateIp
         THEN IF instance.PrivateIpAddress # Nil /\ instance.PrivateIpAddress[1] # <<>>
              THEN instance.PrivateIpAddress[1]
              ELSE <<>>
         ELSE IF instance.PublicIpAddress # Nil /\ instance.PublicIpAddress[1] # <<>>
              THEN instance.PublicIpAddress[1]
              ELSE IF instance.PublicDnsName # Nil /\ instance.PublicDnsName[1] # <<>>
                   THEN instance.PublicDnsName[1]
                   ELSE <<>>

\* faulty variant of GetConnectionDetails: under the public-address policy
\* an instance without public address gets its private address
GetConnectionDetails_PrivateFallback(instance, opts) ==
    IF shouldUseSSM(instance, opts.SSM)
    THEN SsmPrefix \o instance.InstanceId[1]
    ELSE IF ~opts.UsePrivateIp /\ instance.PublicDnsName # Nil
                               /\ instance.PublicDnsName[1] # <<>>
         THEN instance.PublicDnsName[1]
         ELSE IF ~opts.UsePrivateIp /\ instance.PublicIpAddress # Nil
                                    /\ instance.PublicIpAddress[1] # <<>>
              THEN instance.PublicIpAddress[1]
              ELSE IF instance.PrivateIpAddress # Nil /\ instance.PrivateIpAddress[1] # <<>>
                   THEN instance.PrivateIpAddress[1]
                   ELSE <<>>

GetConnectionDetails(instance, opts) ==
    IF shouldUseSSM(instance, opts.SSM)
    THEN SsmPrefix \o instance.InstanceId[1]
    ELSE IF opts.UsePrivateIp
         THEN IF instance.PrivateIpAddress # Nil /\ instance.PrivateIpAddress[1] # <<>>
              THEN instance.PrivateIpAddress[1]
              ELSE <<>>
         ELSE IF instance.PublicDnsName # Nil /\ instance.PublicDnsName[1] # <<>>
              THEN instance.PublicDnsName[1]
              ELSE IF instance.PublicIpAddress # Nil /\ instance.PublicIpAddress[1] # <<>>
                   THEN instance.PublicIpAddress[1]
                   ELSE <<>>

---------------------------------------------------------------------------
(* Words and lines of the external commands (src/unnamed/part_002). *)

WAws ==
    <<"a","w","s">>
WSso ==
    <<"s","s","o">>
WLogin ==
    <<"l","o","g","i","n">>
WSsoSession ==
    <<"-","-","s","s","o","-","s","e","s","s","i","o","n">>
WSsm ==
    <<"s","s","m">>
WStartSession ==
    <<"s","t","a","r","t","-","s","e","s","s","i","o","n">>
WTarget ==
    <<"-","-","t","a","r","g","e","t">>
WProfile ==
    <<"-","-","p","r","o","f","i","l","e">>
WDocumentName ==
    <<"-","-","d","o","c","u","m","e","n","t","-","n","a","m","e">>
WInteractiveCommand ==
    <<"A","W","S","-","S","t","a","r","t","I","n","t","e","r","a","c","t","i","v","e","C","o","m","m","a","n","d">>
WParameters ==
    <<"-","-","p","a","r","a","m","e","t","e","r","s">>
WCommandOpen ==
    <<"c","o","m","m","a","n","d","=","[","\"">>
WCommandClose ==
    <<"\"","]">>
WSsh ==
    <<"s","s","h">>
WXpanes ==
    <<"x","p","a","n","e","s">>
WDashC ==
    <<"-","c">>
WBraces ==
    <<"{","}">>
LineSsh ==
    <<"s","s","h"," ">>
LineSsm ==
    <<"a","w","s"," ","s","s","m"," ","s","t","a","r","t","-","s","e","s","s","i","o","n"," ","-","-","t","a","r","g","e","t"," ">>
LineProfile ==
    <<" ","-","-","p","r","o","f","i","l","e"," ">>
LineDocument ==
    <<" ","-","-","d","o","c","u","m","e","n","t","-","n","a","m","e"," ","A","W","S","-","S","t","a","r","t","I","n","t","e","r","a","c","t","i","v","e","C","o","m","m","a","n","d"," ","-","-","p","a","r","a","m","e","t","e","r","s"," ","'","c","o","m","m","a","n","d","=","[","\"">>
LineDocumentEnd ==
    <<"\"","]","'">>

\* one entry of procs: exec.Command(name, args...), and whether cmd.Run() returned nil
Proc(name, args, ok) == [name |-> name, args |-> args, ok |-> ok]

\* one entry of output: the message printed and the value formatted into it
Out(msg, text) == [msg |-> msg, text |-> text]

---------------------------------------------------------------------------
(* handleSSOError and getSSOSessionFromProfile (src/unnamed/part_002). *)

\* the scan of ~/.aws/config, line by line.  A line is a "[profile X]" header
\* (text X), another "[...]" header, an "sso_session" line (eq: it holds an
\* '=', text the trimmed value after it) or any other line.
RECURSIVE ScanConfig(_, _, _, _)
ScanConfig(lines, i, profile, inTargetProfile) ==
    IF i > Len(lines) THEN <<>>
    ELSE LET line == lines[i]
         IN  IF line.kind = "profile"
             THEN ScanConfig(lines, i + 1, profile, line.text = profile)
             ELSE IF line.kind = "section"
             THEN ScanConfig(lines, i + 1, profile, FALSE)
             ELSE IF inTargetProfile /\ line.kind = "sso_session" /\ line.eq
             THEN line.text
             ELSE ScanConfig(lines, i + 1, profile, inTargetProfile)

\* file: Nil when ~/.aws/config cannot be opened, else Ptr(its lines)
getSSOSessionFromProfile(profile, file) ==
    IF profile = <<>> THEN <<>>
    ELSE IF file = Nil THEN <<>>
    ELSE ScanConfig(file[1], 1, profile, FALSE)

\* faulty variant of IsSSOError: every error counts as a stale session
IsSSOError_AnyError(errStr) == TRUE

\* the condition of handleSSOError on err.Error()
IsSSOError(errStr) ==
    \/ Contains(errStr, MarkerRefresh)
    \/ Contains(errStr, MarkerToken)
    \/ Contains(errStr, MarkerCache)

\* faulty variant of handleSSOError: the result of the login is not looked at
handleSSOError_IgnoreLoginFailure(err, profile, file, loginOk) ==
    LET ssoSession == getSSOSessionFromProfile(profile, file)
    IN  IF IsSSOError(err[1]) /\ ssoSession # <<>>
        THEN [recovered |-> TRUE,
              procs |-> <<Proc(WAws, <<WSso, WLogin, WSsoSession, ssoSession>>, loginOk)>>,
              output |-> <<Out("SSO session expired", profile)>>]
        ELSE [recovered |-> FALSE, procs |-> <<>>,
              output |-> IF IsSSOError(err[1])
                         THEN <<Out("SSO session expired", profile),
                                Out("Could not determine SSO session", profile)>>
                         ELSE <<>>]

\* faulty variant of handleSSOError: the login is run even when no session
\* name was found
handleSSOError_LoginWithoutSession(err, profile, file, loginOk) ==
    IF IsSSOError(err[1])
    THEN LET ssoSession == getSSOSessionFromProfile(profile, file)
         IN  IF ~loginOk
             THEN [recovered |-> FALSE,
                   procs |-> <<Proc(WAws, <<WSso, WLogin, WSsoSession, ssoSession>>, FALSE)>>,
                   output |-> <<Out("SSO session expired", profile),
                                Out("SSO login failed", <<>>)>>]
             ELSE [recovered |-> TRUE,
                   procs |-> <<Proc(WAws, <<WSso, WLogin, WSsoSession, ssoSession>>, TRUE)>>,
                   output |-> <<Out("SSO session expired", profile),
                                Out("SSO login successful", <<>>)>>]
    ELSE [recovered |-> FALSE, procs |-> <<>>, output |-> <<>>]

\* what handleSSOError returns, spawns and prints; file and loginOk are what
\* the environment answers (the config file read, the outcome of the login)
handleSSOError(err, profile, file, loginOk) ==
    IF IsSSOError(err[1])
    THEN LET ssoSession == getSSOSessionFromProfile(profile, file)
         IN  IF ssoSession = <<>>
             THEN [recovered |-> FALSE, procs |-> <<>>,
                   output |-> <<Out("SSO session expired", profile),
                                Out("Could not determine SSO session", profile)>>]
             ELSE IF ~loginOk
             THEN [recovered |-> FALSE,
                   procs |-> <<Proc(WAws, <<WSso, WLogin, WSsoSession, ssoSession>>, FALSE)>>,
                   output |-> <<Out("SSO session expired", profile),
                                Out("SSO login failed", <<>>)>>]
             ELSE [recovered |-> TRUE,
                   procs |-> <<Proc(WAws, <<WSso, WLogin, WSsoSession, ssoSession>>, TRUE)>>,
                   output |-> <<Out("SSO session expired", profile),
                                Out("SSO login successful", <<>>)>>]
    ELSE [recovered |-> FALSE, procs |-> <<>>, output |-> <<>>]

---------------------------------------------------------------------------
(* The environment of a run. *)

Regions == 1..NumRegions

InstanceId(r, k) == <<"i", "-", ToString(r), k>>

Tag(key, value) == [Key |-> key, Value |-> value]

Instance(id, private, dns, ip, tags) ==
    [InstanceId |-> Ptr(id), PrivateIpAddress |-> private,
     PublicDnsName |-> dns, PublicIpAddress |-> ip, Tags |-> tags]

\* what the provider holds in region r: region 1 an instance tagged for the
\* agent session and one with a private address only, region 2 one with a
\* public host name only, any further region one with no address at all
Inventory(r) ==
    IF r = 1
    THEN << Instance(InstanceId(r, "a"), Ptr(AddrPrivate \o <<"1">>), Nil, Nil,
                     <<Tag(Ptr(TagEnv), Ptr(ValProd))>>),
            Instance(InstanceId(r, "b"), Ptr(AddrPrivate), Nil, Nil,
                     <<Tag(Ptr(TagName), Ptr(ValDev))>>) >>
    ELSE IF r = 2
    THEN << Instance(InstanceId(r, "a"), Nil, Ptr(AddrPublicDns), Ptr(<<>>), <<>>) >>
    ELSE << Instance(InstanceId(r, "a"), Nil, Nil, Nil, <<>>) >>

Page(err, reservations) == [err |-> err, Reservations |-> reservations]

\* the answers of DescribeInstances in region r that the model follows: the
\* inventory in one page, the inventory over two pages, one page without
\* reservations (nothing matches the filters), an error on the first page,
\* an error after a first page
ProviderResponses(r) ==
    LET inv == Inventory(r)
    IN  { << Page(Nil, <<inv>>) >>,
          << Page(Nil, <<>>) >>,
          << Page(Nil, <<<<Head(inv)>>>>), Page(Nil, <<Tail(inv)>>) >>,
          << Page(Ptr(ErrExpiredToken), <<>>) >>,
          << Page(Ptr(ErrRequestLimit), <<>>) >>,
          << Page(Nil, <<inv>>), Page(Ptr(ErrRequestLimit), <<>>) >> }

ConfigLine(kind, text, eq) == [kind |-> kind, text |-> text, eq |-> eq]

\* the states of ~/.aws/config the model follows
AwsConfigFiles ==
    { Nil,
      Ptr(<< ConfigLine("profile", ProfileProd, FALSE),
             ConfigLine("other", <<>>, TRUE),
             ConfigLine("sso_session", SsoSessionName, TRUE) >>),
      Ptr(<< ConfigLine("profile", ProfileProd, FALSE),
             ConfigLine("section", <<>>, FALSE),
             ConfigLine("sso_session", SsoSessionName, TRUE) >>),
      Ptr(<< ConfigLine("profile", SsoSessionName, FALSE),
             ConfigLine("sso_session", SsoSessionName, TRUE),
             ConfigLine("profile", ProfileProd, FALSE),
             ConfigLine("sso_session", <<>>, FALSE) >>) }

SSMConfig(key, value) == [TagKey |-> key, TagValue |-> value, Command |-> SsmCommand]

\* the configurations of a run the model follows
RunOptions ==
    [ Filters : { <<>>, <<FilterValid>>, <<FilterNoEq>>, <<FilterValid, FilterMarker>> },
      Profile : { <<>>, ProfileProd },
      PrintOnly : BOOLEAN,
      UsePrivateIp : BOOLEAN,
      SSM : { SSMConfig(<<>>, <<>>), SSMConfig(TagEnv, ValProd) } ]

---------------------------------------------------------------------------
(* Ec2ssh.Run (src/unnamed/part_002): the discovery workers. *)

\* faulty variant of EnterRun: the slice of the previous invocation is kept
EnterRun_KeepInstances ==
    /\ instances' = instances
    /\ lastError' = Nil
    /\ forked' = 0
    /\ wg' = 0
    /\ instancesLock' = 0
    /\ wpc' = [r \in Regions |-> "idle"]
    /\ wres' = [r \in Regions |-> Nil]

\* the locals of a Run at its entry: lines 99-103
EnterRun ==
    /\ instances' = <<>>
    /\ lastError' = Nil
    /\ forked' = 0
    /\ wg' = 0
    /\ instancesLock' = 0
    /\ wpc' = [r \in Regions |-> "idle"]
    /\ wres' = [r \in Regions |-> Nil]

\* one iteration of the loop over e.ec2Clients: wg.Add(1) and the go statement
Fork ==
    /\ pc = "fork"
    /\ forked < NumRegions
    /\ forked' = forked + 1
    /\ wg' = wg + 1
    /\ wpc' = [wpc EXCEPT ![forked + 1] = "list"]
    /\ pc' = IF forked + 1 = NumRegions THEN "wait" ELSE "fork"
    /\ UNCHANGED << options, depth, wres, instancesLock, instances, lastError,
                    indexes, connectionDetails, ssmConnections, procs, output,
                    exitStatus, panicValue, arg, ret >>

\* line 108: the worker's call of ListInstances, answered by the provider
WorkerListInstances(r) ==
    /\ wpc[r] = "list"
    /\ \E pages \in ProviderResponses(r) :
          LET res == ListInstances(options.Filters, pages)
          IN  wres' = [wres EXCEPT ![r] =
                          Ptr([retrivedInstances |-> res.instances, err |-> res.err])]
    /\ wpc' = [wpc EXCEPT ![r] = "lock"]
    /\ UNCHANGED << options, pc, depth, forked, wg, instancesLock, instances,
                    lastError, indexes, connectionDetails, ssmConnections, procs,
                    output, exitStatus, panicValue, arg, ret >>

\* faulty variant of LockFree: Lock never blocks
LockFree_NoMutex == TRUE

\* instancesLock.Lock() returns only when no goroutine holds the mutex
LockFree == instancesLock = 0

\* lines 110 and 116
WorkerLock(r) ==
    /\ wpc[r] = "lock"
    /\ LockFree
    /\ instancesLock' = r
    /\ wpc' = [wpc EXCEPT ![r] = "write"]
    /\ UNCHANGED << options, pc, depth, forked, wres, wg, instances, lastError,
                    indexes, connectionDetails, ssmConnections, procs, output,
                    exitStatus, panicValue, arg, ret >>

\* faulty variant of RecordError: the error is joined to the one recorded
\* before
RecordError_Joined(cur, err) ==
    IF cur = Nil THEN err ELSE Ptr(cur[1] \o <<";"," ">> \o err[1])

\* line 111: the assignment does not look at the current value
RecordError(cur, err) == err

\* line 111: lastError = err
WorkerRecordError(r) ==
    /\ wpc[r] = "write"
    /\ wres[r][1].err # Nil
    /\ lastError' = RecordError(lastError, wres[r][1].err)
    /\ wpc' = [wpc EXCEPT ![r] = "unlock"]
    /\ UNCHANGED << options, pc, depth, forked, wres, wg, instancesLock, instances,
                    indexes, connectionDetails, ssmConnections, procs, output,
                    exitStatus, panicValue, arg, ret >>

\* faulty variant of MergeInstances: assignment instead of append
MergeInstances_Overwrite(cur, retrieved) == retrieved

\* line 117: append(instances, retrivedInstances...)
MergeInstances(cur, retrieved) == cur \o retrieved

\* line 117
WorkerAppend(r) ==
    /\ wpc[r] = "write"
    /\ wres[r][1].err = Nil
    /\ instances' = MergeInstances(instances, wres[r][1].retrivedInstances)
    /\ wpc' = [wpc EXCEPT ![r] = "unlock"]
    /\ UNCHANGED << options, pc, depth, forked, wres, wg, instancesLock, lastError,
                    indexes, connectionDetails, ssmConnections, procs, output,
                    exitStatus, panicValue, arg, ret >>

\* lines 112 and 118
WorkerUnlock(r) ==
    /\ wpc[r] = "unlock"
    /\ instancesLock' = 0
    /\ wpc' = [wpc EXCEPT ![r] = "return"]
    /\ UNCHANGED << options, pc, depth, forked, wres, wg, instances, lastError,
                    indexes, connectionDetails, ssmConnections, procs, output,
                    exitStatus, panicValue, arg, ret >>

\* line 107: the deferred wg.Done()
WorkerDone(r) ==
    /\ wpc[r] = "return"
    /\ wg' = wg - 1
    /\ wpc' = [wpc EXCEPT ![r] = "done"]
    /\ UNCHANGED << options, pc, depth, forked, wres, instancesLock, instances,
                    lastError, indexes, connectionDetails, ssmConnections, procs,
                    output, exitStatus, panicValue, arg, ret >>

---------------------------------------------------------------------------
(* Ec2ssh.Run: after the workers. *)

\* faulty variant of WaitReturns: Wait does not wait
WaitReturns_NoBarrier == TRUE

\* wg.Wait() returns when the counter is zero
WaitReturns == wg = 0

\* line 122
Wait ==
    /\ pc = "wait"
    /\ WaitReturns
    /\ pc' = "check"
    /\ UNCHANGED << options, depth, forked, wpc, wres, wg, instancesLock, instances,
                    lastError, indexes, connectionDetails, ssmConnections, procs,
                    output, exitStatus, panicValue, arg, ret >>

\* faulty variant of DiscoveryFailed: the recorded error is not looked at
DiscoveryFailed_Never == FALSE

\* line 125
DiscoveryFailed == lastError # Nil

\* line 125, no error: on to the finder
CheckNoError ==
    /\ pc = "check"
    /\ ~DiscoveryFailed
    /\ pc' = "select"
    /\ UNCHANGED << options, depth, forked, wpc, wres, wg, instancesLock, instances,
                    lastError, indexes, connectionDetails, ssmConnections, procs,
                    output, exitStatus, panicValue, arg, ret >>

\* an uncaught panic ends the process with status 2
Panic(v) ==
    /\ pc' = "exited"
    /\ exitStatus' = Ptr(2)
    /\ panicValue' = v

\* os.Exit(code), or the return of the outermost Run with code 0
Exit(code) ==
    /\ pc' = "exited"
    /\ exitStatus' = Ptr(code)
    /\ panicValue' = panicValue

\* lines 125-132: handleSSOError, then Run again or panic(lastError)
CheckError ==
    /\ pc = "check"
    /\ DiscoveryFailed
    /\ \E file \in AwsConfigFiles, loginOk \in BOOLEAN :
          LET h == handleSSOError(lastError, options.Profile, file, loginOk)
          IN  /\ procs' = procs \o h.procs
              /\ output' = output \o h.output
              /\ IF h.recovered
                 THEN /\ depth < MaxRuns
                      /\ depth' = depth + 1
                      /\ pc' = "fork"
                      /\ EnterRun
                      /\ UNCHANGED << exitStatus, panicValue >>
                 ELSE /\ Panic(lastError)
                      /\ UNCHANGED << depth, forked, wpc, wres, wg, instancesLock,
                                      instances, lastError >>
    /\ UNCHANGED << options, indexes, connectionDetails, ssmConnections, arg, ret >>

---------------------------------------------------------------------------
(* Ec2ssh.Run: selection, resolution and dispatch. *)

ErrFinder ==
    <<"n","o"," ","t","t","y">>

IsInjective(s) == \A i, j \in 1..Len(s) : s[i] = s[j] => i = j

\* the index lists finder.FindMulti returns for n items: at least one item,
\* none twice, in any order (positions count from 1 here)
Selections(n) ==
    { s \in SeqsUpTo(1..n, MaxSelect) : Len(s) >= 1 /\ IsInjective(s) }

\* faulty variant of Select: an abort returns from Run instead of exiting
\* with status 1
Select_AbortReturns ==
    /\ pc = "select"
    /\ \/ /\ Exit(0)
          /\ UNCHANGED indexes
       \/ /\ Panic(Ptr(ErrFinder))
          /\ UNCHANGED indexes
       \/ /\ \E s \in Selections(Len(instances)) : indexes' = s
          /\ pc' = "resolve"
          /\ UNCHANGED << exitStatus, panicValue >>
    /\ UNCHANGED << options, depth, forked, wpc, wres, wg, instancesLock, instances,
                    lastError, connectionDetails, ssmConnections, procs, output,
                    arg, ret >>

\* lines 134-156: the finder returns ErrAbort, another error, or the indexes
Select ==
    /\ pc = "select"
    /\ \/ /\ Exit(1)
          /\ UNCHANGED indexes
       \/ /\ Panic(Ptr(ErrFinder))
          /\ UNCHANGED indexes
       \/ /\ \E s \in Selections(Len(instances)) : indexes' = s
          /\ pc' = "resolve"
          /\ UNCHANGED << exitStatus, panicValue >>
    /\ UNCHANGED << options, depth, forked, wpc, wres, wg, instancesLock, instances,
                    lastError, connectionDetails, ssmConnections, procs, output,
                    arg, ret >>

\* getStringPtr
getStringPtr(s) == IF s = Nil THEN <<"<","n","i","l",">">> ELSE s[1]

\* faulty variant of Unresolvable: an empty result is taken for a target
Unresolvable_Never(details) == FALSE

\* line 163: the test that skips a selected instance
Unresolvable(details) == details = <<>>

\* faulty variant of CollectConnectionDetails: each plan is put in front of
\* the plans collected so far
RECURSIVE CollectConnectionDetails_Prepend(_, _, _, _, _)
CollectConnectionDetails_Prepend(insts, idxs, opts, i, acc) ==
    IF i > Len(idxs) THEN acc
    ELSE LET inst == insts[idxs[i]]
             details == GetConnectionDetails(inst, opts)
         IN  IF Unresolvable(details)
             THEN CollectConnectionDetails_Prepend(insts, idxs, opts, i + 1,
                     [acc EXCEPT !.output = acc.output \o
                         << Out("No connection details available", inst.InstanceId[1]),
                            Out("Debug", getStringPtr(inst.PublicDnsName)
                                         \o <<",">> \o getStringPtr(inst.PublicIpAddress)
                                         \o <<",">> \o getStringPtr(inst.PrivateIpAddress)) >>])
             ELSE CollectConnectionDetails_Prepend(insts, idxs, opts, i + 1,
                     [acc EXCEPT !.connectionDetails = <<details>> \o acc.connectionDetails,
                                 !.ssmConnections = <<HasPrefix(details, SsmPrefix)>>
                                                    \o acc.ssmConnections])

\* lines 161-173: the loop over indexes
RECURSIVE CollectConnectionDetails(_, _, _, _, _)
CollectConnectionDetails(insts, idxs, opts, i, acc) ==
    IF i > Len(idxs) THEN acc
    ELSE LET inst == insts[idxs[i]]
             details == GetConnectionDetails(inst, opts)
         IN  IF Unresolvable(details)
             THEN CollectConnectionDetails(insts, idxs, opts, i + 1,
                     [acc EXCEPT !.output = acc.output \o
                         << Out("No connection details available", inst.InstanceId[1]),
                            Out("Debug", getStringPtr(inst.PublicDnsName)
                                         \o <<",">> \o getStringPtr(inst.PublicIpAddress)
                                         \o <<",">> \o getStringPtr(inst.PrivateIpAddress)) >>])
             ELSE CollectConnectionDetails(insts, idxs, opts, i + 1,
                     [acc EXCEPT !.connectionDetails = Append(acc.connectionDetails, details),
                                 !.ssmConnections = Append(acc.ssmConnections,
                                                           HasPrefix(details, SsmPrefix))])

ResolveAll(insts, idxs, opts) ==
    CollectConnectionDetails(insts, idxs, opts, 1,
        [connectionDetails |-> <<>>, ssmConnections |-> <<>>, output |-> <<>>])

\* faulty variant of NoPlans: a lone plan counts as none
NoPlans_FewerThanTwo(details) == Len(details) < 2

\* line 175: the test that ends the run
NoPlans(details) == Len(details) = 0

\* lines 158-178
Resolve ==
    /\ pc = "resolve"
    /\ LET got == ResolveAll(instances, indexes, options)
       IN  /\ connectionDetails' = got.connectionDetails
           /\ ssmConnections' = got.ssmConnections
           /\ IF NoPlans(got.connectionDetails)
              THEN /\ output' = output \o got.output
                                \o <<Out("No valid connection details found", <<>>)>>
                   /\ Exit(1)
              ELSE /\ output' = output \o got.output
                   /\ pc' = "dispatch"
                   /\ UNCHANGED << exitStatus, panicValue >>
    /\ UNCHANGED << options, depth, forked, wpc, wres, wg, instancesLock, instances,
                    lastError, indexes, procs, arg, ret >>

\* faulty variant of PrintLine: the profile is left out of the printed line
PrintLine_NoProfile(details, isSSM, opts) ==
    IF isSSM
    THEN LineSsm \o TrimPrefix(details, SsmPrefix)
    ELSE LineSsh \o details

\* lines 183-192: the line printed for one plan
PrintLine(details, isSSM, opts) ==
    IF isSSM
    THEN LET instanceId == TrimPrefix(details, SsmPrefix)
         IN  IF opts.Profile # <<>>
             THEN LineSsm \o instanceId \o LineProfile \o opts.Profile
             ELSE LineSsm \o instanceId
    ELSE LineSsh \o details

\* lines 181-195
DispatchPrintOnly ==
    /\ pc = "dispatch"
    /\ options.PrintOnly
    /\ output' = output \o
          [i \in 1..Len(connectionDetails) |->
              Out("line", PrintLine(connectionDetails[i], ssmConnections[i], options))]
    /\ Exit(0)
    /\ UNCHANGED << options, depth, forked, wpc, wres, wg, instancesLock, instances,
                    lastError, indexes, connectionDetails, ssmConnections, procs,
                    arg, ret >>

\* lines 257-262: the arguments of the aws command of connectToInstance
SsmArgs(instanceId, opts) ==
    <<WSsm, WStartSession, WTarget, instanceId>>
    \o (IF opts.Profile # <<>> THEN <<WProfile, opts.Profile>> ELSE <<>>)
    \o <<WDocumentName, WInteractiveCommand>>
    \o <<WParameters, WCommandOpen \o opts.SSM.Command \o WCommandClose>>

\* faulty variant of connectToInstance: a failed child is not turned into
\* an exit
connectToInstance_IgnoreFailure(details, isSSM, opts, ok) ==
    IF isSSM
    THEN LET instanceId == TrimPrefix(details, SsmPrefix)
         IN  [procs |-> <<Proc(WAws, SsmArgs(instanceId, opts), ok)>>,
              output |-> <<Out("Connecting via SSM", instanceId)>>,
              exit |-> Nil]
    ELSE [procs |-> <<Proc(WSsh, <<details>>, ok)>>,
          output |-> <<Out("Connecting", details)>>,
          exit |-> Nil]

\* connectToInstance: what it spawns and prints, and the status it exits with
\* (Nil when it returns); ok is whether the child ended without error
connectToInstance(details, isSSM, opts, ok) ==
    IF isSSM
    THEN LET instanceId == TrimPrefix(details, SsmPrefix)
         IN  [procs |-> <<Proc(WAws, SsmArgs(instanceId, opts), ok)>>,
              output |-> <<Out("Connecting via SSM", instanceId)>>
                         \o (IF ok THEN <<>> ELSE <<Out("SSM connection failed", <<>>)>>),
              exit |-> IF ok THEN Nil ELSE Ptr(1)]
    ELSE [procs |-> <<Proc(WSsh, <<details>>, ok)>>,
          output |-> <<Out("Connecting", details)>>
                     \o (IF ok THEN <<>> ELSE <<Out("SSH connection failed", <<>>)>>),
          exit |-> IF ok THEN Nil ELSE Ptr(1)]

\* a call of connectToInstance followed by the return of Run
ConnectAndReturn(details, isSSM, before) ==
    \E ok \in BOOLEAN :
        LET c == connectToInstance(details, isSSM, options, ok)
        IN  /\ procs' = procs \o c.procs
            /\ output' = output \o before \o c.output
            /\ Exit(IF c.exit = Nil THEN 0 ELSE c.exit[1])

\* faulty variant of UseXpanes: the selected instances are counted, not the
\* plans
UseXpanes_BySelection(details) == Len(indexes) > 1

\* line 198: the test that chooses the multi-pane path
UseXpanes(details) == Len(details) > 1

\* lines 243-248
DispatchSingle ==
    /\ pc = "dispatch"
    /\ ~options.PrintOnly
    /\ ~UseXpanes(connectionDetails)
    /\ ConnectAndReturn(connectionDetails[1], ssmConnections[1], <<>>)
    /\ UNCHANGED << options, depth, forked, wpc, wres, wg, instancesLock, instances,
                    lastError, indexes, connectionDetails, ssmConnections, arg, ret >>

\* faulty variant of DispatchXpanesMissing: the fallback connects to the
\* last plan
DispatchXpanesMissing_LastPlan ==
    /\ pc = "dispatch"
    /\ ~options.PrintOnly
    /\ Len(connectionDetails) > 1
    /\ ConnectAndReturn(connectionDetails[Len(connectionDetails)],
                        ssmConnections[Len(connectionDetails)],
          << Out("Connecting using xpanes", Itoa(Len(connectionDetails))),
             Out("Error: xpanes not found", <<>>),
             Out("Falling back to single instance connection", <<>>) >>)
    /\ UNCHANGED << options, depth, forked, wpc, wres, wg, instancesLock, instances,
                    lastError, indexes, connectionDetails, ssmConnections, arg, ret >>

\* lines 198-211: exec.LookPath("xpanes") fails
DispatchXpanesMissing ==
    /\ pc = "dispatch"
    /\ ~options.PrintOnly
    /\ UseXpanes(connectionDetails)
    /\ ConnectAndReturn(connectionDetails[1], ssmConnections[1],
          << Out("Connecting using xpanes", Itoa(Len(connectionDetails))),
             Out("Error: xpanes not found", <<>>),
             Out("Falling back to single instance connection", <<>>) >>)
    /\ UNCHANGED << options, depth, forked, wpc, wres, wg, instancesLock, instances,
                    lastError, indexes, connectionDetails, ssmConnections, arg, ret >>

\* faulty variant of PaneCommand: every pane gets the ssh command
PaneCommand_DirectOnly(details, isSSM, opts) ==
    LineSsh \o details

\* lines 216-227: the command of one pane
PaneCommand(details, isSSM, opts) ==
    IF isSSM
    THEN LET instanceId == TrimPrefix(details, SsmPrefix)
         IN  IF opts.Profile # <<>>
             THEN LineSsm \o instanceId \o LineProfile \o opts.Profile
                  \o LineDocument \o opts.SSM.Command \o LineDocumentEnd
             ELSE LineSsm \o instanceId
                  \o LineDocument \o opts.SSM.Command \o LineDocumentEnd
    ELSE LineSsh \o details

\* faulty variant of DispatchXpanes: a failed helper does not end the run
\* with status 1
DispatchXpanes_IgnoreFailure ==
    /\ pc = "dispatch"
    /\ ~options.PrintOnly
    /\ Len(connectionDetails) > 1
    /\ \E ok \in BOOLEAN :
          LET args == [i \in 1..Len(connectionDetails) |->
                          PaneCommand(connectionDetails[i], ssmConnections[i], options)]
          IN  /\ procs' = Append(procs, Proc(WXpanes, <<WDashC, WBraces>> \o args, ok))
              /\ output' = output
                    \o <<Out("Connecting using xpanes", Itoa(Len(connectionDetails)))>>
              /\ Exit(0)
    /\ UNCHANGED << options, depth, forked, wpc, wres, wg, instancesLock, instances,
                    lastError, indexes, connectionDetails, ssmConnections, arg, ret >>

\* lines 213-242: xpanes is found and run
DispatchXpanes ==
    /\ pc = "dispatch"
    /\ ~options.PrintOnly
    /\ UseXpanes(connectionDetails)
    /\ \E ok \in BOOLEAN :
          LET args == [i \in 1..Len(connectionDetails) |->
                          PaneCommand(connectionDetails[i], ssmConnections[i], options)]
          IN  /\ procs' = Append(procs, Proc(WXpanes, <<WDashC, WBraces>> \o args, ok))
              /\ output' = output
                    \o <<Out("Connecting using xpanes", Itoa(Len(connectionDetails)))>>
                    \o (IF ok THEN <<>> ELSE <<Out("xpanes command failed", <<>>)>>)
              /\ Exit(IF ok THEN 0 ELSE 1)
    /\ UNCHANGED << options, depth, forked, wpc, wres, wg, instancesLock, instances,
                    lastError, indexes, connectionDetails, ssmConnections, arg, ret >>

---------------------------------------------------------------------------
(* The run of the program. *)

Init ==
    /\ options \in RunOptions
    /\ pc = "fork"
    /\ depth = 1
    /\ forked = 0
    /\ wpc = [r \in Regions |-> "idle"]
    /\ wres = [r \in Regions |-> Nil]
    /\ wg = 0
    /\ instancesLock = 0
    /\ instances = <<>>
    /\ lastError = Nil
    /\ indexes = <<>>
    /\ connectionDetails = <<>>
    /\ ssmConnections = <<>>
    /\ procs = <<>>
    /\ output = <<>>
    /\ exitStatus = Nil
    /\ panicValue = Nil
    /\ arg = Nil
    /\ ret = Nil

Next ==
    \/ Fork
    \/ \E r \in Regions : WorkerListInstances(r)
    \/ \E r \in Regions : WorkerLock(r)
    \/ \E r \in Regions : WorkerRecordError(r)
    \/ \E r \in Regions : WorkerAppend(r)
    \/ \E r \in Regions : WorkerUnlock(r)
    \/ \E r \in Regions : WorkerDone(r)
    \/ Wait
    \/ CheckNoError
    \/ CheckError
    \/ Select
    \/ Resolve
    \/ DispatchPrintOnly
    \/ DispatchSingle
    \/ DispatchXpanesMissing
    \/ DispatchXpanes

Spec == Init /\ [][Next]_vars

---------------------------------------------------------------------------
(* Direct calls of ListInstances: every short filter list, every answer. *)

FilterStrings ==
    SeqsUpTo({"k", "="}, MaxFilterLen) \cup {FilterValid, FilterMarker, FilterState}

ListOptions ==
    [ Filters : SeqsUpTo(FilterStrings, MaxFilterCount),
      Profile : { <<>> },
      PrintOnly : { FALSE },
      UsePrivateIp : { TRUE },
      SSM : { SSMConfig(<<>>, <<>>) } ]

IdleRun ==
    /\ pc = "idle"
    /\ depth = 0
    /\ forked = 0
    /\ wpc = [r \in Regions |-> "idle"]
    /\ wres = [r \in Regions |-> Nil]
    /\ wg = 0
    /\ instancesLock = 0
    /\ instances = <<>>
    /\ lastError = Nil
    /\ indexes = <<>>
    /\ connectionDetails = <<>>
    /\ ssmConnections = <<>>
    /\ procs = <<>>
    /\ output = <<>>
    /\ exitStatus = Nil
    /\ panicValue = Nil

InitList ==
    /\ options \in ListOptions
    /\ arg \in ProviderResponses(1)
    /\ ret = Nil
    /\ IdleRun

CallListInstances ==
    /\ ret = Nil
    /\ ret' = Ptr(ListInstances(options.Filters, arg))
    /\ UNCHANGED << options, arg >>
    /\ UNCHANGED runVars

NextList == CallListInstances

SpecList == InitList /\ [][NextList]_vars

---------------------------------------------------------------------------
(* Direct calls of GetConnectionDetails: every small instance, every policy. *)

TagDomain ==
    [ Key : { Nil, Ptr(<<>>), Ptr(TagEnv), Ptr(TagName) },
      Value : { Nil, Ptr(ValProd), Ptr(ValDev) } ]

InstanceDomain ==
    { Instance(InstanceId(1, "a"), private, dns, ip, tags) :
        private \in { Nil, Ptr(<<>>), Ptr(AddrPrivate) },
        dns \in { Nil, Ptr(<<>>), Ptr(AddrPublicDns), Ptr(AddrPrefixed) },
        ip \in { Nil, Ptr(<<>>), Ptr(AddrPublicIp) },
        tags \in SeqsUpTo(TagDomain, MaxTags) }

ResolveOptions ==
    [ Filters : { <<>> },
      Profile : { <<>> },
      PrintOnly : { FALSE },
      UsePrivateIp : BOOLEAN,
      SSM : { SSMConfig(k, v) : k \in { <<>>, TagEnv }, v \in { <<>>, ValProd } } ]

InitResolve ==
    /\ options \in ResolveOptions
    /\ arg \in InstanceDomain
    /\ ret = Nil
    /\ IdleRun

\* GetConnectionDetails on arg, and the plan Run derives from it when arg is
\* the one selected instance
CallGetConnectionDetails ==
    /\ ret = Nil
    /\ ret' = Ptr([details |-> GetConnectionDetails(arg, options),
                   plans |-> ResolveAll(<<arg>>, <<1>>, options)])
    /\ UNCHANGED << options, arg >>
    /\ UNCHANGED runVars

NextResolve == CallGetConnectionDetails

SpecResolve == InitResolve /\ [][NextResolve]_vars

---------------------------------------------------------------------------
(* Properties of the discovery and recovery steps. *)

IsLogin(p) == p.name = WAws /\ Len(p.args) >= 2 /\ p.args[1] = WSso /\ p.args[2] = WLogin

LoginCount == Cardinality({ i \in 1..Len(procs) : IsLogin(procs[i]) })

SelectionInvoked == pc \in {"select", "resolve", "dispatch"} \/ indexes # <<>>

AllWorkersDone == \A r \in Regions : wpc[r] = "done"

HasMarker(text) ==
    \/ Contains(text, <<"f","a","i","l","e","d"," ","t","o"," ","r","e","f","r","e","s","h"," ","c","a","c","h","e","d"," ","c","r","e","d","e","n","t","i","a","l","s">>)
    \/ Contains(text, <<"c","a","c","h","e","d"," ","S","S","O"," ","t","o","k","e","n">>)
    \/ Contains(text, <<"s","s","o","/","c","a","c","h","e">>)

\* C1: in any run, credential recovery (the external login) is attempted at
\* most once and the multi-region discovery is executed at most twice.
C1_RecoveryAtMostOnce ==
    depth <= 2 /\ LoginCount <= 1

\* C2: selection is invoked only with the results of an attempt in which
\* every region succeeded; every instance handed to it was fetched in that
\* attempt, and none is carried over from a failed attempt or duplicated.
C2_NoPartialResults ==
    SelectionInvoked =>
        /\ \A r \in Regions : wres[r] # Nil /\ wres[r][1].err = Nil
        /\ \A i \in 1..Len(instances) :
              \E r \in Regions : instances[i] \in Range(wres[r][1].retrivedInstances)
        /\ IsInjective(instances)

\* a retry after a failed attempt has reached the finder with its own results
C2_Witness ==
    /\ pc = "select"
    /\ depth = 2
    /\ LoginCount = 1
    /\ Len(instances) = 3

\* C3: within one attempt, once a worker has recorded an error, no later
\* failing worker replaces it: the first error recorded is the one retained.
C3_FirstErrorWins ==
    [][(lastError # Nil /\ depth' = depth) => lastError' = lastError]_vars

\* C4: the orchestrator is past wg.Wait() (inspecting the error, recovering,
\* selecting, or later) only when every discovery worker of the current
\* attempt has finished.
C4_Barrier ==
    pc \in {"check", "select", "resolve", "dispatch", "exited"} =>
        /\ AllWorkersDone
        /\ forked = NumRegions
        /\ wg = 0

\* the orchestrator inspects the error after a mixed attempt: one region
\* failed, another succeeded, all have finished
C4_Witness ==
    /\ pc = "check"
    /\ lastError # Nil
    /\ \E r \in Regions : wres[r] # Nil /\ wres[r][1].err = Nil

InCriticalSection(r) == wpc[r] \in {"write", "unlock"}

\* C5: at most one worker is inside the critical section; every change of
\* the shared result collection or the recorded error within an attempt is
\* made by the worker holding the mutex, while the orchestrator is still
\* before the end of wg.Wait(); after it the shared state no longer changes.
C5_LockDiscipline ==
    /\ [](Cardinality({ r \in Regions : InCriticalSection(r) }) <= 1)
    /\ [](\A r \in Regions : InCriticalSection(r) => instancesLock = r)
    /\ [][((instances' # instances \/ lastError' # lastError) /\ depth' = depth) =>
            /\ pc \in {"fork", "wait"}
            /\ \E r \in Regions : /\ instancesLock = r
                                  /\ wpc[r] = "write"
                                  /\ wpc'[r] = "unlock"]_vars

\* a worker is inside the critical section while another waits for the mutex
C5_Witness ==
    \E r, q \in Regions : r # q /\ wpc[r] = "write" /\ wpc[q] = "lock"

RECURSIVE FetchedCount(_, _)
FetchedCount(n, x) ==
    IF n = 0 THEN 0
    ELSE FetchedCount(n - 1, x)
         + (IF wres[n] = Nil THEN 0 ELSE Count(wres[n][1].retrivedInstances, x))

\* C6: when every region's fetch succeeded, the list handed to selection
\* holds each instance exactly as many times as the regions returned it.
C6_MergeIsUnion ==
    SelectionInvoked =>
        \A x \in Range(instances)
                 \cup UNION { Range(wres[r][1].retrivedInstances) : r \in Regions } :
            Count(instances, x) = FetchedCount(NumRegions, x)

\* the finder is reached with the last region's instances merged first
C6_Witness ==
    /\ pc = "select"
    /\ Len(instances) = 3
    /\ instances[1] = Inventory(NumRegions)[1]

\* C7: at the inspection of a discovery error, recovery is entered exactly
\* when the error text holds a stale-credential marker; otherwise the run
\* ends with the panic of that error, no login spawned and no new discovery.
C7_RecoveryIffMarker ==
    [][(pc = "check" /\ lastError # Nil) =>
          IF HasMarker(lastError[1])
          THEN /\ Len(output') > Len(output)
               /\ output'[Len(output) + 1].msg = "SSO session expired"
          ELSE /\ pc' = "exited"
               /\ exitStatus' = Ptr(2)
               /\ panicValue' = lastError
               /\ procs' = procs
               /\ output' = output
               /\ depth' = depth]_vars

\* a provider error without marker has ended the first run, nothing spawned
C7_Witness ==
    /\ pc = "exited"
    /\ panicValue = Ptr(ErrRequestLimit)
    /\ depth = 1
    /\ procs = <<>>
    /\ output = <<>>

RecoveryFailed(out, ps) ==
    \/ out # <<>> /\ out[Len(out)].msg = "Could not determine SSO session"
    \/ ps # <<>> /\ IsLogin(ps[Len(ps)]) /\ ~ps[Len(ps)].ok

\* C8: when a stale-credential error is inspected and the session cannot be
\* resolved or the login fails, the run ends with the panic of the original
\* error: no new discovery, no selection, and nothing happens afterwards.
C8_FailedRecoveryIsFatal ==
    /\ [][(pc = "check" /\ lastError # Nil /\ HasMarker(lastError[1])
              /\ (output' # output \/ procs' # procs)
              /\ RecoveryFailed(output', procs')) =>
            /\ pc' = "exited"
            /\ exitStatus' = Ptr(2)
            /\ panicValue' = lastError
            /\ depth' = depth
            /\ indexes' = <<>>]_vars
    /\ [][pc = "exited" => UNCHANGED vars]_vars

\* the login was spawned and failed, and the run has ended with the
\* stale-credential error as its panic, the finder never invoked
C8_Witness ==
    /\ pc = "exited"
    /\ panicValue = Ptr(ErrExpiredToken)
    /\ procs # <<>>
    /\ IsLogin(procs[Len(procs)])
    /\ ~procs[Len(procs)].ok
    /\ indexes = <<>>

---------------------------------------------------------------------------
(* Properties of ListInstances and GetConnectionDetails. *)

EqCount(s) == Cardinality({ i \in 1..Len(s) : s[i] = "=" })

\* C9: for every user filter list holding a string without exactly one '=',
\* ListInstances returns an error and has issued no provider call.
C9_RejectsUnlessOneEq ==
    (ret # Nil /\ \E i \in 1..Len(options.Filters) : EqCount(options.Filters[i]) # 1) =>
        /\ ret[1].err # Nil
        /\ ret[1].requests = <<>>

HasAgentTag(inst, ssm) ==
    /\ ssm.TagKey # <<>>
    /\ \E i \in 1..Len(inst.Tags) :
          /\ inst.Tags[i].Key = Ptr(ssm.TagKey)
          /\ ssm.TagValue # <<>> => inst.Tags[i].Value = Ptr(ssm.TagValue)

\* C10: an instance carrying the configured agent tag (key, and value when
\* one is configured) resolves to an agent-session plan whose target is the
\* instance identifier, whatever its addresses and the addressing policy.
C10_AgentTagWins ==
    (ret # Nil /\ HasAgentTag(arg, options.SSM)) =>
        /\ ret[1].details = SsmPrefix \o arg.InstanceId[1]
        /\ ret[1].plans.ssmConnections = <<TRUE>>
        /\ Len(ret[1].plans.connectionDetails) = 1
        /\ TrimPrefix(ret[1].plans.connectionDetails[1], SsmPrefix) = arg.InstanceId[1]

\* a tagged instance with a private address was resolved under the
\* private-address policy, its matching tag after a tag of the same key
\* and another value
C10_Witness ==
    /\ ret # Nil
    /\ options.UsePrivateIp
    /\ options.SSM.TagValue = ValProd
    /\ arg.PrivateIpAddress = Ptr(AddrPrivate)
    /\ Len(arg.Tags) = 2
    /\ arg.Tags[1] = Tag(Ptr(TagEnv), Ptr(ValDev))
    /\ arg.Tags[2] = Tag(Ptr(TagEnv), Ptr(ValProd))
    /\ HasAgentTag(arg, options.SSM)

Present(p) == p # Nil /\ p[1] # <<>>

\* C11: for an instance without a matching agent tag, under the
\* private-address policy GetConnectionDetails returns the private address
\* when it is present and non-empty and the empty string otherwise; the
\* public host name and the public IP are never returned.
C11_PrivatePolicy ==
    (ret # Nil /\ ~HasAgentTag(arg, options.SSM) /\ options.UsePrivateIp) =>
        /\ ret[1].details = IF Present(arg.PrivateIpAddress)
                            THEN arg.PrivateIpAddress[1]
                            ELSE <<>>
        /\ ret[1].details \notin {AddrPublicDns, AddrPublicIp}

\* an untagged instance with both public addresses and no private address
\* was resolved under the private-address policy, to nothing
C11_Witness ==
    /\ ret # Nil
    /\ options.UsePrivateIp
    /\ ~HasAgentTag(arg, options.SSM)
    /\ arg.PrivateIpAddress = Nil
    /\ arg.PublicDnsName = Ptr(AddrPublicDns)
    /\ arg.PublicIpAddress = Ptr(AddrPublicIp)
    /\ ret[1].details = <<>>

PrivateOnly(inst) ==
    /\ ~Present(inst.PublicDnsName)
    /\ ~Present(inst.PublicIpAddress)
    /\ Present(inst.PrivateIpAddress)

---------------------------------------------------------------------------
(* Properties of the resolve and dispatch steps. *)

PlanTarget(i) ==
    IF ssmConnections[i]
    THEN TrimPrefix(connectionDetails[i], SsmPrefix)
    ELSE connectionDetails[i]

\* the positions of indexes whose instance resolves to a target
Resolvable ==
    { i \in 1..Len(indexes) :
        GetConnectionDetails(instances[indexes[i]], options) # <<>> }

IsSession(p) ==
    \/ p.name = WSsh
    \/ p.name = WAws /\ Len(p.args) >= 2 /\ p.args[1] = WSsm /\ p.args[2] = WStartSession

IsHelper(p) == p.name = WXpanes

\* the target a session process was given, <<>> when it has none
SessionTarget(p) ==
    IF p.name = WSsh
    THEN (IF Len(p.args) = 1 THEN p.args[1] ELSE <<>>)
    ELSE (IF Len(p.args) >= 4 /\ p.args[3] = WTarget THEN p.args[4] ELSE <<>>)

\* a printed line or pane command names a target after its command words
NamesTarget(line) ==
    IF HasPrefix(line, LineSsm)
    THEN Len(line) > Len(LineSsm) /\ line[Len(LineSsm) + 1] # " "
    ELSE HasPrefix(line, LineSsh) /\ Len(line) > Len(LineSsh)

Reported(i, before, after) ==
    \E k \in (Len(before) + 1)..Len(after) :
        /\ after[k].msg = "No connection details available"
        /\ after[k].text = instances[indexes[i]].InstanceId[1]

EndedAtResolve ==
    /\ pc = "exited"
    /\ output # <<>>
    /\ output[Len(output)].msg = "No valid connection details found"

\* C15: the resolve step reports every selected instance that resolves to
\* nothing and spawns nothing; it ends the run with status 1 exactly when
\* no selected instance resolves, and otherwise hands the remaining plans
\* to dispatch. A run ended there has spawned no session and no helper.
C15_ExcludeAndContinue ==
    /\ [][pc = "resolve" =>
            /\ \A i \in (1..Len(indexes)) \ Resolvable : Reported(i, output, output')
            /\ procs' = procs
            /\ IF Resolvable = {}
               THEN /\ pc' = "exited"
                    /\ exitStatus' = Ptr(1)
                    /\ connectionDetails' = <<>>
               ELSE /\ pc' = "dispatch"
                    /\ exitStatus' = Nil
                    /\ Len(connectionDetails') = Cardinality(Resolvable)]_vars
    /\ [](EndedAtResolve =>
            /\ exitStatus = Ptr(1)
            /\ \A i \in 1..Len(procs) : ~IsSession(procs[i]) /\ ~IsHelper(procs[i]))

\* two instances were selected, neither resolves, and the run has ended at
\* the resolve step
C15_Witness ==
    /\ EndedAtResolve
    /\ Len(indexes) = 2
    /\ Resolvable = {}
    /\ exitStatus = Ptr(1)

\* what the selected instances resolve to, in selection order, the
\* unresolvable ones left out
SelectedDetails ==
    SelectSeq([i \in 1..Len(indexes) |->
                  GetConnectionDetails(instances[indexes[i]], options)],
              LAMBDA d : d # <<>>)

ExpectedLine(i) ==
    IF ssmConnections[i]
    THEN <<"a","w","s"," ","s","s","m"," ","s","t","a","r","t","-","s","e","s","s","i","o","n"," ","-","-","t","a","r","g","e","t"," ">>
         \o PlanTarget(i)
         \o (IF options.Profile # <<>>
             THEN <<" ","-","-","p","r","o","f","i","l","e"," ">> \o options.Profile
             ELSE <<>>)
    ELSE <<"s","s","h"," ">> \o PlanTarget(i)

SpawnedOne(before, after) ==
    /\ Len(after) = Len(before) + 1
    /\ SubSeq(after, 1, Len(before)) = before

\* p is the session process of plan i: ssh with the target as its only
\* argument, or aws ssm start-session with the target
IsSessionOf(p, i) ==
    IF ssmConnections[i]
    THEN /\ p.name = WAws
         /\ Len(p.args) >= 4
         /\ SubSeq(p.args, 1, 4) = <<WSsm, WStartSession, WTarget, PlanTarget(i)>>
    ELSE /\ p.name = WSsh
         /\ p.args = <<connectionDetails[i]>>

\* C17: in interactive mode with exactly one plan the dispatch step spawns
\* exactly one process, the session of that plan (ssh with the target as
\* sole argument, or the agent-session command), never the multi-pane
\* helper; the run ends there, with status 1 when the child failed.
C17_SingleSession ==
    [][(pc = "dispatch" /\ ~options.PrintOnly /\ Len(connectionDetails) = 1) =>
          /\ SpawnedOne(procs, procs')
          /\ IsSessionOf(procs'[Len(procs')], 1)
          /\ ~IsHelper(procs'[Len(procs')])
          /\ pc' = "exited"
          /\ ~procs'[Len(procs')].ok => exitStatus' = Ptr(1)]_vars

\* the one plan was an agent session, its child failed, and the run has
\* ended with status 1
C17_Witness ==
    /\ pc = "exited"
    /\ ~options.PrintOnly
    /\ ssmConnections = <<TRUE>>
    /\ procs # <<>>
    /\ IsSessionOf(procs[Len(procs)], 1)
    /\ ~procs[Len(procs)].ok
    /\ exitStatus = Ptr(1)

HelperSpawned(before, after) ==
    Len(after) > Len(before) /\ IsHelper(after[Len(after)])

Logged(msg, before, after) ==
    \E k \in (Len(before) + 1)..Len(after) : after[k].msg = msg

\* C18: in interactive mode with two or more plans, a dispatch step that
\* does not run the multi-pane helper logs that the helper is missing and
\* that it falls back, and spawns exactly one process: the session of the
\* first plan, with that plan's transport.
C18_FallbackToFirst ==
    [][(pc = "dispatch" /\ ~options.PrintOnly /\ Len(connectionDetails) >= 2
           /\ ~HelperSpawned(procs, procs')) =>
          /\ Logged("Error: xpanes not found", output, output')
          /\ Logged("Falling back to single instance connection", output, output')
          /\ SpawnedOne(procs, procs')
          /\ IsSessionOf(procs'[Len(procs')], 1)
          /\ pc' = "exited"]_vars

\* the helper was missing for a direct-shell plan followed by an
\* agent-session plan, and only an ssh to the first has been spawned
C18_Witness ==
    /\ pc = "exited"
    /\ ~options.PrintOnly
    /\ ssmConnections = <<FALSE, TRUE>>
    /\ output # <<>>
    /\ \E k \in 1..Len(output) : output[k].msg = "Error: xpanes not found"
    /\ procs # <<>>
    /\ procs[Len(procs)].name = WSsh
    /\ procs[Len(procs)].args = <<connectionDetails[1]>>
    /\ \A i \in 1..Len(procs) : IsSession(procs[i]) => i = Len(procs)

ExpectedPane(i) ==
    IF ssmConnections[i]
    THEN LineSsm \o PlanTarget(i)
         \o (IF options.Profile # <<>> THEN LineProfile \o options.Profile ELSE <<>>)
         \o LineDocument \o options.SSM.Command \o LineDocumentEnd
    ELSE LineSsh \o connectionDetails[i]

\* C19: in interactive mode with two or more plans, a dispatch step that
\* runs the multi-pane helper spawns that one process only; after "-c" and
\* "{}" its arguments are one command line per plan, in selection order,
\* the ssh or the agent-session command line of that plan; the run ends
\* there, with status 1 when the helper failed.
C19_HelperPanes ==
    /\ [][(pc = "dispatch" /\ ~options.PrintOnly /\ Len(connectionDetails) >= 2
             /\ HelperSpawned(procs, procs')) =>
            /\ connectionDetails = SelectedDetails
            /\ SpawnedOne(procs, procs')
            /\ procs'[Len(procs')].args =
                  <<WDashC, WBraces>> \o [i \in 1..Len(connectionDetails) |-> ExpectedPane(i)]
            /\ pc' = "exited"
            /\ ~procs'[Len(procs')].ok => exitStatus' = Ptr(1)]_vars
    /\ [](\A i \in 1..Len(procs) :
             IsHelper(procs[i]) =>
                 /\ i = Len(procs)
                 /\ \A k \in 1..Len(procs) : ~IsSession(procs[k]))

\* the helper was run for an agent-session plan and a direct-shell plan
\* under a profile, and failed
C19_Witness ==
    /\ pc = "exited"
    /\ exitStatus = Ptr(1)
    /\ options.Profile = ProfileProd
    /\ ssmConnections = <<TRUE, FALSE>>
    /\ procs # <<>>
    /\ IsHelper(procs[Len(procs)])
    /\ Len(procs[Len(procs)].args) = 4
    /\ ~procs[Len(procs)].ok

---------------------------------------------------------------------------
(* Properties of the selection step. *)

\* the finder returned ErrAbort in this step
AbortStep == pc = "select" /\ pc' = "exited" /\ panicValue' = Nil

\* the run has ended by an abort of the selection
Aborted == pc = "exited" /\ panicValue = Nil /\ indexes = <<>> /\ exitStatus # Nil

\* C20 as stated: when the user aborts the selection the run ends with a
\* non-zero status and the whole run has spawned no external process.
C20_AbortNoProcessAtAll ==
    [][AbortStep => (exitStatus' # Ptr(0) /\ procs' = <<>>)]_vars

\* C20: when the user aborts the selection the run ends with a non-zero
\* status; the abort spawns and prints nothing, the run has spawned no
\* session and no multi-pane helper (only the login of a credential
\* recovery that came before the selection), nothing was resolved or
\* dispatched, and nothing happens afterwards.
C20_AbortSpawnsNothing ==
    /\ [][AbortStep =>
            /\ exitStatus' # Nil
            /\ exitStatus'[1] # 0
            /\ procs' = procs
            /\ output' = output
            /\ indexes' = <<>>
            /\ connectionDetails' = <<>>
            /\ \A i \in 1..Len(procs') : IsLogin(procs'[i])]_vars
    /\ [][Aborted => UNCHANGED vars]_vars

\* the selection of a run that had recovered its credentials was aborted:
\* the login is the one process of the run
C20_Witness ==
    /\ Aborted
    /\ exitStatus = Ptr(1)
    /\ depth = 2
    /\ Len(procs) = 1
    /\ IsLogin(procs[1])

---------------------------------------------------------------------------
(* Properties of the exit statuses. *)

\* the run has ended on a failure path other than an abort of the selection
OtherFailure ==
    /\ pc = "exited"
    /\ ~Aborted
    /\ \/ panicValue # Nil
       \/ EndedAtResolve
       \/ procs # <<>> /\ ~procs[Len(procs)].ok

\* C21: the status of a run ended by an abort of the selection (status 1,
\* os.Exit(1)) is the status of no other failure path: all instances
\* unresolvable, a failed session child, a failed multi-pane helper, a fatal
\* discovery error.
C21_AbortStatusDistinct ==
    /\ Aborted => exitStatus = Ptr(1)
    /\ OtherFailure => (exitStatus # Nil /\ exitStatus # Ptr(1))

\* the discovery of the last attempt succeeded in every region and found
\* no instance
EmptyDiscovery ==
    /\ AllWorkersDone
    /\ lastError = Nil
    /\ instances = <<>>
    /\ pc \notin {"fork", "wait"}

ChildFailed ==
    \E i \in 1..Len(procs) :
        (IsSession(procs[i]) \/ IsHelper(procs[i])) /\ ~procs[i].ok

\* C22: a run that has ended after an abort of the selection, after a
\* discovery without instances, with every selected instance unresolvable,
\* or with a failed session or multi-pane child (the fallback and a retried
\* run included) has not ended with status 0.
C22_NeverZeroOnFailure ==
    (pc = "exited" /\ (Aborted \/ EmptyDiscovery \/ EndedAtResolve \/ ChildFailed)) =>
        (exitStatus # Nil /\ exitStatus[1] # 0)

\* a retried run whose discovery found nothing has ended with status 1
C22_Witness ==
    /\ pc = "exited"
    /\ EmptyDiscovery
    /\ depth = 2
    /\ exitStatus = Ptr(1)

---------------------------------------------------------------------------
(* Properties of the order of plans and of the steps. *)

\* the positions of indexes whose instance resolves, in selection order
ResolvableSeq ==
    SelectSeq([i \in 1..Len(indexes) |-> i], LAMBDA i : i \in Resolvable)

\* C23: the plans handed to dispatch are the selected instances in the
\* order the finder returned them, the unresolvable ones removed; the
\* transport recorded at a position is the one resolved for the instance
\* whose target stands at that position.
C23_SelectionOrderKept ==
    (pc \in {"dispatch", "exited"} /\ indexes # <<>>) =>
        /\ connectionDetails =
              [j \in 1..Len(ResolvableSeq) |->
                  GetConnectionDetails(instances[indexes[ResolvableSeq[j]]], options)]
        /\ ssmConnections =
              [j \in 1..Len(ResolvableSeq) |->
                  shouldUseSSM(instances[indexes[ResolvableSeq[j]]], options.SSM)]

\* two instances were selected against the order of the list, the first a
\* direct-shell plan and the second an agent-session plan
C23_Witness ==
    /\ pc = "dispatch"
    /\ Len(indexes) = 2
    /\ indexes[1] > indexes[2]
    /\ ssmConnections = <<FALSE, TRUE>>
    /\ connectionDetails[2] = SsmPrefix \o instances[indexes[2]].InstanceId[1]

\* the steps of Run that may follow one another
StepOrder ==
    { <<"fork", "wait">>, <<"wait", "check">>, <<"check", "fork">>,
      <<"check", "select">>, <<"check", "exited">>,
      <<"select", "resolve">>, <<"select", "exited">>,
      <<"resolve", "dispatch">>, <<"resolve", "exited">>,
      <<"dispatch", "exited">> }

DispatchCount ==
    Cardinality({ i \in 1..Len(procs) : IsSession(procs[i]) \/ IsHelper(procs[i]) })

\* C24: the steps follow one another only as discovery, possibly recovery
\* and a new discovery, selection, resolution, dispatch. The finder is
\* invoked only after an attempt in which every region succeeded and
\* before any session is spawned, and never a second time; sessions and
\* the helper are spawned by the dispatch step only, which happens once.
C24_PipelineOrder ==
    /\ [][/\ pc' # pc => <<pc, pc'>> \in StepOrder
          /\ depth' # depth => (pc = "check" /\ pc' = "fork" /\ depth' = depth + 1)
          /\ pc \in {"select", "resolve", "dispatch"} => pc' # pc
          /\ DispatchCount' # DispatchCount =>
                (pc = "dispatch" /\ pc' = "exited" /\ DispatchCount = 0)]_vars
    /\ [](pc = "select" =>
            /\ lastError = Nil
            /\ \A r \in Regions : wres[r] # Nil /\ wres[r][1].err = Nil
            /\ DispatchCount = 0
            /\ indexes = <<>>)
    /\ [](DispatchCount <= 1)

\* a run that recovered its credentials and retried has selected, resolved
\* and dispatched one session, which succeeded
C24_Witness ==
    /\ pc = "exited"
    /\ depth = 2
    /\ LoginCount = 1
    /\ indexes # <<>>
    /\ DispatchCount = 1
    /\ IsSession(procs[Len(procs)])
    /\ exitStatus = Ptr(0)

---------------------------------------------------------------------------
(* The agent-session command on the three dispatch paths: every short
   startup command, with and without profile. *)

\* the first position from i on where s holds one of chars, Len(s) + 1 when
\* there is none
NextOf(s, i, chars) ==
    CHOOSE j \in i..(Len(s) + 1) :
        /\ j = Len(s) + 1 \/ s[j] \in chars
        /\ \A k \in i..(j - 1) : s[k] \notin chars

\* the words a POSIX shell makes of a command line: blanks separate words,
\* '...' and "..." quote; s is read from position i, mode is the quoting at
\* that position, cur the word so far (has: a word has begun), acc the
\* words before it. Nil when a quote is left open.
RECURSIVE ShellScan(_, _, _, _, _, _)
ShellScan(s, i, mode, cur, has, acc) ==
    IF mode = "plain"
    THEN LET j == NextOf(s, i, {" ", "'", "\""})
             word == cur \o SubSeq(s, i, j - 1)
             begun == has \/ j > i
         IN  IF j > Len(s)
             THEN Ptr(IF begun THEN Append(acc, word) ELSE acc)
             ELSE IF s[j] = " "
                  THEN ShellScan(s, j + 1, "plain", <<>>, FALSE,
                                 IF begun THEN Append(acc, word) ELSE acc)
                  ELSE ShellScan(s, j + 1, IF s[j] = "'" THEN "single" ELSE "double",
                                 word, TRUE, acc)
    ELSE LET j == NextOf(s, i, IF mode = "single" THEN {"'"} ELSE {"\""})
         IN  IF j > Len(s)
             THEN Nil
             ELSE ShellScan(s, j + 1, "plain", cur \o SubSeq(s, i, j - 1), TRUE, acc)

\* the argument list the shell of a pane runs for the command xpanes types
ShellWords(s) == ShellScan(s, 1, "plain", <<>>, FALSE, <<>>)

\* the startup commands the model follows, the default among them
StartupCommands ==
    SeqsUpTo({"a", " ", "'"}, MaxCommandLen) \cup {SsmCommand}

CommandOptions ==
    [ Filters : { <<>> },
      Profile : { <<>>, ProfileProd },
      PrintOnly : BOOLEAN,
      UsePrivateIp : { TRUE },
      SSM : { [TagKey |-> TagEnv, TagValue |-> <<>>, Command |-> c] :
                 c \in StartupCommands } ]

InitCommand ==
    /\ options \in CommandOptions
    /\ arg \in { SsmPrefix \o InstanceId(r, "a") : r \in Regions }
    /\ ret = Nil
    /\ IdleRun

\* what each dispatch path makes of the agent-session plan arg: the line of
\* print-only mode, the process of connectToInstance, the pane command and
\* the words the shell of the pane runs
CallDispatchPaths ==
    /\ ret = Nil
    /\ ret' = Ptr([line |-> PrintLine(arg, TRUE, options),
                   spawn |-> connectToInstance(arg, TRUE, options, TRUE).procs[1],
                   pane |-> PaneCommand(arg, TRUE, options),
                   paneWords |-> ShellWords(PaneCommand(arg, TRUE, options))])
    /\ UNCHANGED << options, arg >>
    /\ UNCHANGED runVars

NextCommand == CallDispatchPaths

SpecCommand == InitCommand /\ [][NextCommand]_vars

ProfileWords == IF options.Profile # <<>> THEN <<WProfile, options.Profile>> ELSE <<>>

\* C25: for an agent-session plan the printed line, the spawned command and
\* the pane command each request a session against the instance identifier
\* and carry the profile exactly when one is configured; the startup
\* command is carried by the spawned command and the pane command and not
\* by the printed line; the pane command runs the arguments of the spawned
\* command, in the same order.
C25_SameAgentCommand ==
    ret # Nil =>
        LET id == TrimPrefix(arg, SsmPrefix)
            session == <<WSsm, WStartSession, WTarget, id>> \o ProfileWords
        IN  /\ ShellWords(ret[1].line) = Ptr(<<WAws>> \o session)
            /\ ret[1].spawn.name = WAws
            /\ ret[1].spawn.args =
                  session \o <<WDocumentName, WInteractiveCommand, WParameters,
                               WCommandOpen \o options.SSM.Command \o WCommandClose>>
            /\ ret[1].paneWords = Ptr(<<WAws>> \o ret[1].spawn.args)

---------------------------------------------------------------------------
(* Properties of the merged list and of the provider queries. *)

\* the instances of region r in the merged list, in the order of the list
RegionPart(r) ==
    SelectSeq(instances, LAMBDA x : x \in Range(Inventory(r)))

\* the worker of region r has appended its instances in this attempt
Merged(r) ==
    /\ wpc[r] \in {"unlock", "return", "done"}
    /\ wres[r] # Nil
    /\ wres[r][1].err = Nil

\* C26: in the merged list the instances of a region stand in the order in
\* which the provider returned them (page after page, and in the order of
\* the page), whatever the interleaving of the workers; a region that has
\* not appended has no instance in the list.
C26_RegionOrderKept ==
    \A r \in Regions :
        IF Merged(r)
        THEN /\ RegionPart(r) = wres[r][1].retrivedInstances
             /\ wres[r][1].retrivedInstances \in {<<>>, Inventory(r)}
        ELSE RegionPart(r) = <<>>

\* the last region appended first, and the two instances of the first
\* region follow in the order of the provider
C26_Witness ==
    /\ pc = "select"
    /\ Len(instances) = 3
    /\ instances[1] \in Range(Inventory(2))
    /\ SubSeq(instances, 2, 3) = Inventory(1)

\* the filter the provider is to apply for the user filter text
UserFilter(text) ==
    LET eq == CHOOSE j \in 1..Len(text) :
                  text[j] = "=" /\ \A k \in 1..(j - 1) : text[k] # "="
    IN  [Name |-> SubSeq(text, 1, eq - 1),
         Values |-> <<SubSeq(text, eq + 1, Len(text))>>]

\* C27: every query ListInstances sends carries the lifecycle-state filter
\* {pending, running, shutting-down} as its first filter and after it the
\* user filters in their order, one for one, also when a user filter names
\* the same field.
C27_BaselineFirst ==
    ret # Nil =>
        \A k \in 1..Len(ret[1].requests) :
            LET sent == ret[1].requests[k]
            IN  /\ Len(sent) = 1 + Len(options.Filters)
                /\ sent[1].Name = <<"i","n","s","t","a","n","c","e","-","s","t","a","t","e","-","n","a","m","e">>
                /\ sent[1].Values = <<StatePending, StateRunning, StateShuttingDown>>
                /\ \A i \in 1..Len(options.Filters) :
                      sent[i + 1] = UserFilter(options.Filters[i])

\* a user filter on the lifecycle state and a tag filter were sent, after
\* the baseline filter, with each of two pages
C27_Witness ==
    /\ ret # Nil
    /\ options.Filters = <<FilterState, FilterValid>>
    /\ Len(ret[1].requests) = 2
    /\ ret[1].requests[2][2].Name = StateFilterName
    /\ ret[1].requests[2][1].Name = StateFilterName

---------------------------------------------------------------------------
(* Properties of the choice of the dispatch path. *)

---------------------------------------------------------------------------
(* Properties of the handling of a malformed filter. *)

\* the error ListInstances makes of a malformed filter
IsFilterError(err) ==
    err # Nil /\ HasPrefix(err[1], <<"F","i","l","t","e","r","s"," ","c","a","n"," ","o","n","l","y"," ","c","o","n","t","a","i","n"," ","o","n","e"," ","'","=","'">>)

\* C29: when the error of a malformed filter is inspected the run ends
\* with that error: no login is spawned and discovery is not run again,
\* whatever the text of the filter.
C29_FilterErrorIsFatal ==
    [][(pc = "check" /\ IsFilterError(lastError)) =>
          /\ pc' = "exited"
          /\ panicValue' = lastError
          /\ procs' = procs
          /\ depth' = depth]_vars

---------------------------------------------------------------------------
(* The run without a limit on the re-entries of Run: from the MaxRuns-th
   entry on, depth stays at MaxRuns and the logins and messages of the
   further entries are not recorded. Every step that can be taken is
   taken in the end: calls, the finder and children return. *)

\* lines 125-129 in the MaxRuns-th or a later entry of Run: recovery
\* succeeds and Run is entered once more
CheckErrorAgain ==
    /\ pc = "check"
    /\ DiscoveryFailed
    /\ depth = MaxRuns
    /\ \E file \in AwsConfigFiles, loginOk \in BOOLEAN :
          handleSSOError(lastError, options.Profile, file, loginOk).recovered
    /\ pc' = "fork"
    /\ EnterRun
    /\ UNCHANGED << options, depth, indexes, connectionDetails, ssmConnections,
                    procs, output, exitStatus, panicValue, arg, ret >>

NextLive == Next \/ CheckErrorAgain

SpecLive == Init /\ [][NextLive]_vars /\ WF_vars(NextLive)

\* C30: every run ends, with success or failure, when every provider call,
\* the finder and every child process return, whatever the outcomes of
\* discovery and of the login.
C30_Terminates ==
    <>(pc = "exited")

---------------------------------------------------------------------------
(* Properties of the decision between recovery and the fatal end. *)

Failed(r) == wres[r] # Nil /\ wres[r][1].err # Nil

\* the inspection step entered the recovery branch of handleSSOError
RecoveryEntered(before, after) ==
    Len(after) > Len(before) /\ after[Len(before) + 1].msg = "SSO session expired"

\* C31 as stated: for given outcomes of the regions the decision between
\* recovery and the fatal end is the same for every order in which the
\* workers complete. Every order being possible, this is: the error
\* inspected classifies as the error of every failed region does.
C31_DecisionIndependentOfOrder ==
    (pc = "check" /\ lastError # Nil) =>
        \A r \in Regions :
            Failed(r) => (HasMarker(wres[r][1].err[1]) <=> HasMarker(lastError[1]))

\* C31: the decision is taken from the one error recorded when the workers
\* are done, which is the error of one of the failed regions: recovery is
\* entered exactly when that error holds a stale-credential marker. For
\* given outcomes it is the same for every order of the workers when the
\* errors of the failed regions classify alike.
C31_DecisionFollowsRecorded ==
    /\ [](pc = "check" =>
            /\ lastError = Nil <=> (\A r \in Regions : ~Failed(r))
            /\ lastError # Nil => \E r \in Regions : Failed(r) /\ wres[r][1].err = lastError)
    /\ [][(pc = "check" /\ lastError # Nil) =>
            /\ RecoveryEntered(output, output') <=> HasMarker(lastError[1])
            /\ (\A r, q \in Regions :
                   (Failed(r) /\ Failed(q)) =>
                       (HasMarker(wres[r][1].err[1]) <=> HasMarker(wres[q][1].err[1])))
               => (RecoveryEntered(output, output') <=>
                      \E r \in Regions : Failed(r) /\ HasMarker(wres[r][1].err[1]))]_vars

\* one region failed with a stale-credential error and another with a
\* request-limit error; the latter was recorded and the run has ended
\* fatally without recovery
C31_Witness ==
    /\ pc = "exited"
    /\ depth = 1
    /\ panicValue = Ptr(ErrRequestLimit)
    /\ \E r \in Regions : Failed(r) /\ wres[r][1].err = Ptr(ErrExpiredToken)
    /\ output = <<>>


\* C32: with no profile configured, the inspection of a stale-credential
\* discovery error ends the run with the panic on that error, spawning
\* nothing and starting no further pass; such a run never holds a login
\* and never goes beyond its first pass.
C32_NoProfileNoLogin ==
    /\ [][(/\ pc = "check"
           /\ lastError # Nil
           /\ HasMarker(lastError[1])
           /\ options.Profile = <<>>) =>
            /\ pc' = "exited"
            /\ panicValue' = lastError
            /\ exitStatus' = Ptr(2)
            /\ procs' = procs
            /\ depth' = depth
            /\ output'[Len(output')].msg = "Could not determine SSO session"]_vars
    /\ [](options.Profile = <<>> => LoginCount = 0 /\ depth = 1)

\* a run without profile has ended on a stale-credential error, after the
\* report that no session could be determined and without any spawn
C32_Witness ==
    /\ pc = "exited"
    /\ options.Profile = <<>>
    /\ panicValue = Ptr(ErrExpiredToken)
    /\ exitStatus = Ptr(2)
    /\ procs = <<>>
    /\ Len(output) = 2
    /\ output[2].msg = "Could not determine SSO session"


---------------------------------------------------------------------------
(* Properties of the transport of a plan. *)

\* the address the address rules give for an instance under a policy
AddressByRules(inst, opts) ==
    IF opts.UsePrivateIp
    THEN IF Present(inst.PrivateIpAddress) THEN inst.PrivateIpAddress[1] ELSE <<>>
    ELSE IF Present(inst.PublicDnsName) THEN inst.PublicDnsName[1]
    ELSE IF Present(inst.PublicIpAddress) THEN inst.PublicIpAddress[1]
    ELSE <<>>

\* C33: an instance without a matching agent tag (no key configured, no
\* tag of that key, or a tag of that key with another value than the
\* configured one) is resolved by the address rules, and the plan it gets
\* is a direct shell to that address, whatever its tags and addresses are:
\* the plan is not flagged as an agent session and its connection spawns
\* the direct-shell command on the address.
C33_AgentOnlyIfTagged ==
    (ret # Nil /\ ~HasAgentTag(arg, options.SSM)) =>
        /\ ret[1].details = AddressByRules(arg, options)
        /\ ret[1].details # <<>> =>
              /\ ret[1].plans.connectionDetails = <<ret[1].details>>
              /\ ret[1].plans.ssmConnections = <<FALSE>>
              /\ \A ok \in BOOLEAN :
                    connectToInstance(ret[1].plans.connectionDetails[1],
                                      ret[1].plans.ssmConnections[1],
                                      options, ok).procs
                       = <<Proc(WSsh, <<ret[1].details>>, ok)>>

============================================================================
